---- MODULE Spec2Model ----
(***************************************************************************)
(* A model of scripts/forum_api.py: the forum registry, the config file,   *)
(* the GraphQL request dispatcher and the command-line entry point.        *)
(*                                                                         *)
(* Text the program manipulates (forum names, identifiers, tag names) is a *)
(* sequence of one-character strings, so that lower(), strip(), split()    *)
(* and the regular expressions are computed and not assumed.  So is text   *)
(* whose truth the program tests (tokens, --content, --url): the empty     *)
(* sequence is the empty string.  URLs and query names are plain strings.  *)
(***************************************************************************)
EXTENDS Integers, Sequences, FiniteSets, TLC

(***************************************************************************)
(* Text                                                                    *)
(***************************************************************************)
UpperAlpha ==
    << "A","B","C","D","E","F","G","H","I","J","K","L","M",
       "N","O","P","Q","R","S","T","U","V","W","X","Y","Z" >>

LowerAlpha ==
    << "a","b","c","d","e","f","g","h","i","j","k","l","m",
       "n","o","p","q","r","s","t","u","v","w","x","y","z" >>

Digits == {"0","1","2","3","4","5","6","7","8","9"}

Whitespace == {" ", "\t", "\n"}

IsUpper(c) == \E i \in 1..26 : UpperAlpha[i] = c

IsLower(c) == \E i \in 1..26 : LowerAlpha[i] = c

\* [a-zA-Z0-9]
IsAlnum(c) == IsUpper(c) \/ IsLower(c) \/ c \in Digits

lower_char(c) ==
    IF IsUpper(c) THEN LowerAlpha[CHOOSE i \in 1..26 : UpperAlpha[i] = c] ELSE c

upper_char(c) ==
    IF IsLower(c) THEN UpperAlpha[CHOOSE i \in 1..26 : LowerAlpha[i] = c] ELSE c

\* str.lower()
lower(s) == [i \in 1..Len(s) |-> lower_char(s[i])]

\* str.upper(), used to build the inputs only
upper(s) == [i \in 1..Len(s) |-> upper_char(s[i])]

capitalize(s) == [i \in 1..Len(s) |-> IF i = 1 THEN upper_char(s[i]) ELSE s[i]]

RECURSIVE lstrip(_)
lstrip(s) ==
    IF s # <<>> /\ Head(s) \in Whitespace THEN lstrip(Tail(s)) ELSE s

RECURSIVE rstrip(_)
rstrip(s) ==
    IF s # <<>> /\ s[Len(s)] \in Whitespace
    THEN rstrip(SubSeq(s, 1, Len(s) - 1))
    ELSE s

\* str.strip()
strip(s) == rstrip(lstrip(s))

\* x in list
InList(x, list) == \E i \in 1..Len(list) : list[i] = x

\* needle in haystack, for strings
IsSubstring(needle, hay) ==
    \E i \in 0..(Len(hay) - Len(needle)) :
        \A j \in 1..Len(needle) : hay[i + j] = needle[j]

(***************************************************************************)
(* Python values: a dict is a function, None and {} are both the empty     *)
(* function, which is what the code's truth tests (if post:) see.          *)
(***************************************************************************)
None == <<>>

\* d.get(k, default)
Get(d, k, default) == IF k \in DOMAIN d THEN d[k] ELSE default

\* d[k] = v
Put(d, k, v) == [x \in (DOMAIN d) \cup {k} |-> IF x = k THEN v ELSE d[x]]

(***************************************************************************)
(* The forum registry                                                      *)
(***************************************************************************)
LESSWRONG == << "l","e","s","s","w","r","o","n","g" >>

EAFORUM == << "e","a","f","o","r","u","m" >>

ALIGNMENTFORUM == << "a","l","i","g","n","m","e","n","t","f","o","r","u","m" >>

\* FORUMS, in the order the dict literal lists its keys
FORUMS ==
    << [ key      |-> LESSWRONG,
         name     |-> "LessWrong",
         url      |-> "https://www.lesswrong.com/graphql",
         base_url |-> "https://www.lesswrong.com",
         aliases  |-> << << "l","w" >>,
                         << "l","e","s","s","-","w","r","o","n","g" >> >> ],
       [ key      |-> EAFORUM,
         name     |-> "EA Forum",
         url      |-> "https://forum.effectivealtruism.org/graphql",
         base_url |-> "https://forum.effectivealtruism.org",
         aliases  |-> << << "e","a" >>,
                         << "e","f","f","e","c","t","i","v","e","-",
                            "a","l","t","r","u","i","s","m" >>,
                         << "e","a","-","f","o","r","u","m" >> >> ],
       [ key      |-> ALIGNMENTFORUM,
         name     |-> "Alignment Forum",
         url      |-> "https://www.alignmentforum.org/graphql",
         base_url |-> "https://www.alignmentforum.org",
         aliases  |-> << << "a","f" >>,
                         << "a","l","i","g","n","m","e","n","t" >>,
                         << "a","l","i","g","n","m","e","n","t","-",
                            "f","o","r","u","m" >> >> ] >>

\* FORUMS.keys(), in order
ForumKeys == [i \in 1..Len(FORUMS) |-> FORUMS[i].key]

\* FORUMS[key]
ForumEntry(key) == FORUMS[CHOOSE i \in 1..Len(FORUMS) : FORUMS[i].key = key]

(***************************************************************************)
(* Errors: what was raised, about what, and the options the message lists. *)
(***************************************************************************)
NoError == [kind |-> "none", subject |-> <<>>, options |-> <<>>]

Raise(kind, subject, options) ==
    [kind |-> kind, subject |-> subject, options |-> options]

\* resolve_forum without the lower(): a plausible slip
resolve_forum_case_sensitive(forum_input) ==
    LET s == strip(forum_input)
        hits == {i \in 1..Len(FORUMS) : InList(s, FORUMS[i].aliases)}
    IN  IF InList(s, ForumKeys)
        THEN [key |-> s, err |-> NoError]
        ELSE IF hits # {}
        THEN [key |-> FORUMS[CHOOSE i \in hits : \A j \in hits : i <= j].key,
              err |-> NoError]
        ELSE [key |-> <<>>, err |-> Raise("UnknownForum", s, ForumKeys)]

\* resolve_forum without the strip(): a plausible slip
resolve_forum_no_strip(forum_input) ==
    LET s == lower(forum_input)
        hits == {i \in 1..Len(FORUMS) : InList(s, FORUMS[i].aliases)}
    IN  IF InList(s, ForumKeys)
        THEN [key |-> s, err |-> NoError]
        ELSE IF hits # {}
        THEN [key |-> FORUMS[CHOOSE i \in hits : \A j \in hits : i <= j].key,
              err |-> NoError]
        ELSE [key |-> <<>>, err |-> Raise("UnknownForum", s, ForumKeys)]

\* resolve_forum that falls back to the default forum instead of raising
resolve_forum_default(forum_input) ==
    LET s == strip(lower(forum_input))
        hits == {i \in 1..Len(FORUMS) : InList(s, FORUMS[i].aliases)}
    IN  IF InList(s, ForumKeys)
        THEN [key |-> s, err |-> NoError]
        ELSE IF hits # {}
        THEN [key |-> FORUMS[CHOOSE i \in hits : \A j \in hits : i <= j].key,
              err |-> NoError]
        ELSE [key |-> LESSWRONG, err |-> NoError]

\* resolve_forum: the canonical key, or the ValueError "Unknown forum"
resolve_forum(forum_input) ==
    LET s == strip(lower(forum_input))
        \* the forums whose alias list holds s; the loop returns the first
        hits == {i \in 1..Len(FORUMS) : InList(s, FORUMS[i].aliases)}
    IN  IF InList(s, ForumKeys)
        THEN [key |-> s, err |-> NoError]
        ELSE IF hits # {}
        THEN [key |-> FORUMS[CHOOSE i \in hits : \A j \in hits : i <= j].key,
              err |-> NoError]
        ELSE [key |-> <<>>, err |-> Raise("UnknownForum", s, ForumKeys)]

(***************************************************************************)
(* State                                                                   *)
(***************************************************************************)
VARIABLES
    cfgFile,    \* CONFIG_FILE: whether it exists, and the JSON object in it
    pc,         \* where the current invocation stands
    args,       \* what parse_args() returned
    pending,    \* the request graphql_query is about to POST
    reqs,       \* the POSTs this invocation has sent, in order
    exchange,   \* the last reply, and what the dispatcher made of it
    local,      \* the locals of the running command (user, since_date, ...)
    result,     \* what the command's function returned
    err,        \* the exception that ended the command, if any
    stdout,     \* what main() printed, by kind
    exit_code   \* the process's exit code, -1 while it runs

vars == << cfgFile, pc, args, pending, reqs, exchange, local, result, err, stdout, exit_code >>

(***************************************************************************)
(* The config file                                                         *)
(***************************************************************************)
NoFile == [exists |-> FALSE, data |-> <<>>]

File(data) == [exists |-> TRUE, data |-> data]

\* load_config: the defaults, in memory, when the file is absent
load_config(file) ==
    IF ~file.exists
    THEN [subscriptions |-> <<>>, digest_days |-> 7, output_dir |-> "digests"]
    ELSE file.data

\* load_config that writes the defaults out when it finds no file
config_file_after_load_persisting(file) ==
    IF file.exists THEN file ELSE File(load_config(file))

\* CONFIG_FILE as load_config leaves it: it only reads
config_file_after_load(file) == file

\* get_auth_token that looks the token up under the resolved key itself
get_auth_token_no_fold(file, forum) ==
    LET config == load_config(file)
        auth   == Get(config, "auth", <<>>)
        r      == resolve_forum(forum)
    IN  IF r.err.kind # "none"
        THEN [token |-> None, key |-> <<>>, err |-> r.err]
        ELSE [token |-> Get(auth, r.key, None), key |-> r.key, err |-> NoError]

\* get_auth_token: the stored token, None when there is none; alignmentforum
\* reads the lesswrong slot
get_auth_token(file, forum) ==
    LET config == load_config(file)
        auth   == Get(config, "auth", <<>>)
        r      == resolve_forum(forum)
        forum_key == IF r.key = ALIGNMENTFORUM THEN LESSWRONG ELSE r.key
    IN  IF r.err.kind # "none"
        THEN [token |-> None, key |-> <<>>, err |-> r.err]
        ELSE [token |-> Get(auth, forum_key, None), key |-> forum_key,
              err |-> NoError]

\* save_auth_token that stores the token under the resolved key itself
save_auth_token_no_fold(file, forum, token) ==
    LET config == load_config(file)
        withAuth == IF "auth" \in DOMAIN config THEN config
                    ELSE Put(config, "auth", <<>>)
        r == resolve_forum(forum)
    IN  IF r.err.kind # "none"
        THEN [file |-> file, key |-> <<>>, err |-> r.err]
        ELSE [file |-> File(Put(withAuth, "auth",
                                Put(withAuth["auth"], r.key, token))),
              key  |-> r.key,
              err  |-> NoError]

\* save_auth_token that starts the auth mapping afresh
save_auth_token_fresh_auth(file, forum, token) ==
    LET config == load_config(file)
        r == resolve_forum(forum)
        forum_key == IF r.key = ALIGNMENTFORUM THEN LESSWRONG ELSE r.key
    IN  IF r.err.kind # "none"
        THEN [file |-> file, key |-> <<>>, err |-> r.err]
        ELSE [file |-> File(Put(config, "auth", Put(<<>>, forum_key, token))),
              key  |-> forum_key,
              err  |-> NoError]

\* save_auth_token: the file it leaves, the key it returns
save_auth_token(file, forum, token) ==
    LET config == load_config(file)
        withAuth == IF "auth" \in DOMAIN config THEN config
                    ELSE Put(config, "auth", <<>>)
        r == resolve_forum(forum)
        forum_key == IF r.key = ALIGNMENTFORUM THEN LESSWRONG ELSE r.key
    IN  IF r.err.kind # "none"
        THEN [file |-> config_file_after_load(file), key |-> <<>>, err |-> r.err]
        ELSE [file |-> File(Put(withAuth, "auth",
                                Put(withAuth["auth"], forum_key, token))),
              key  |-> forum_key,
              err  |-> NoError]

(***************************************************************************)
(* The request dispatcher                                                  *)
(***************************************************************************)
\* get_forum_url
get_forum_url(forum) ==
    LET r == resolve_forum(forum)
    IN  IF r.err.kind # "none"
        THEN [url |-> "", err |-> r.err]
        ELSE [url |-> ForumEntry(r.key).url, err |-> NoError]

\* payload = {"query": query}; if variables: payload["variables"] = variables
Payload(query, variables) ==
    IF variables # <<>>
    THEN [query |-> query, variables |-> variables]
    ELSE [query |-> query]

\* graphql_query up to its requests.post: the request, or what it raised
graphql_query(query, variables, forum) ==
    LET u == get_forum_url(forum)
    IN  IF u.err.kind # "none"
        THEN [req |-> None, err |-> u.err]
        ELSE [req |-> [url |-> u.url, payload |-> Payload(query, variables),
                       cookies |-> <<>>],
              err |-> NoError]

\* graphql_query_authenticated that posts whether or not a token is stored
graphql_query_authenticated_unchecked(file, query, variables, forum) ==
    LET t == get_auth_token(file, forum)
        u == get_forum_url(forum)
    IN  IF t.err.kind # "none"
        THEN [req |-> None, err |-> t.err]
        ELSE [req |-> [url |-> u.url, payload |-> Payload(query, variables),
                       cookies |-> [loginToken |-> t.token]],
              err |-> NoError]

\* graphql_query_authenticated up to its requests.post
graphql_query_authenticated(file, query, variables, forum) ==
    LET t == get_auth_token(file, forum)
        u == get_forum_url(forum)
    IN  IF t.err.kind # "none"
        THEN [req |-> None, err |-> t.err]
        ELSE IF t.token = <<>>
        THEN [req |-> None, err |-> Raise("NoToken", forum, <<>>)]
        ELSE IF u.err.kind # "none"
        THEN [req |-> None, err |-> u.err]
        ELSE [req |-> [url |-> u.url, payload |-> Payload(query, variables),
                       cookies |-> [loginToken |-> t.token]],
              err |-> NoError]

\* An HTTP response: the status, whether the body parses to a JSON object,
\* and that object.
Response(status, object, body) ==
    [status |-> status, object |-> object, body |-> body]

\* response.raise_for_status() raises for a 4xx or 5xx status
RaisesForStatus(status) == 400 <= status /\ status < 600

\* the dispatcher's tail, raising only when `errors` holds an error
unwrap_nonempty_errors(resp) ==
    IF RaisesForStatus(resp.status)
    THEN [data |-> <<>>, err |-> Raise("HTTPError", <<>>, <<>>)]
    ELSE IF ~resp.object
    THEN [data |-> <<>>, err |-> Raise("BadBody", <<>>, <<>>)]
    ELSE IF Get(resp.body, "errors", <<>>) # <<>>
    THEN [data |-> <<>>, err |-> Raise("GraphQLErrors", <<>>, <<>>)]
    ELSE [data |-> Get(resp.body, "data", <<>>), err |-> NoError]

\* the dispatcher's tail: raise_for_status, response.json(), the errors test,
\* data.get("data", {})
unwrap(resp) ==
    IF RaisesForStatus(resp.status)
    THEN [data |-> <<>>, err |-> Raise("HTTPError", <<>>, <<>>)]
    ELSE IF ~resp.object
    THEN [data |-> <<>>, err |-> Raise("BadBody", <<>>, <<>>)]
    ELSE IF "errors" \in DOMAIN resp.body
    THEN [data |-> <<>>, err |-> Raise("GraphQLErrors", <<>>, <<>>)]
    ELSE [data |-> Get(resp.body, "data", <<>>), err |-> NoError]

(***************************************************************************)
(* What a command's function does with the data of a reply: it returns,    *)
(* it raises, or it calls graphql_query again.                             *)
(***************************************************************************)
Return(value, loc) == [kind |-> "return", value |-> value, local |-> loc]

Throw(e) == [kind |-> "raise", err |-> e]

Call(query, variables, loc) ==
    [kind |-> "call", query |-> query, variables |-> variables, local |-> loc]

Min(a, b) == IF a <= b THEN a ELSE b

Max(a, b) == IF a >= b THEN a ELSE b

\* seq[:limit], Python's slice: a negative limit counts from the end
SliceTo(seq, limit) ==
    SubSeq(seq, 1, IF limit < 0 THEN Max(Len(seq) + limit, 0)
                   ELSE Min(limit, Len(seq)))

(***************************************************************************)
(* Post lookup                                                             *)
(***************************************************************************)
IdLen == 17

SlugScanLimit == 1000

PostsPrefix == << "/","p","o","s","t","s","/" >>

\* the length of the run of [a-zA-Z0-9] that starts at s[k]
RECURSIVE AlnumRun(_, _)
AlnumRun(s, k) ==
    IF k <= Len(s) /\ IsAlnum(s[k]) THEN 1 + AlnumRun(s, k + 1) ELSE 0

\* /posts/([a-zA-Z0-9]+)/ matches at position i
MatchesAt(s, i) ==
    /\ i + Len(PostsPrefix) - 1 <= Len(s)
    /\ SubSeq(s, i, i + Len(PostsPrefix) - 1) = PostsPrefix
    /\ LET n == AlnumRun(s, i + Len(PostsPrefix))
       IN  /\ n >= 1
           /\ i + Len(PostsPrefix) + n <= Len(s)
           /\ s[i + Len(PostsPrefix) + n] = "/"

\* re.search(r'/posts/([a-zA-Z0-9]+)/', identifier).group(1), None if no match
url_match(s) ==
    LET at == {i \in 1..Len(s) : MatchesAt(s, i)}
    IN  IF at = {} THEN None
        ELSE LET i == CHOOSE x \in at : \A y \in at : x <= y
             IN  SubSeq(s, i + Len(PostsPrefix),
                        i + Len(PostsPrefix) + AlnumRun(s, i + Len(PostsPrefix)) - 1)

\* re.match(r'^[a-zA-Z0-9]{17}$', identifier): $ also matches before a final
\* newline
id_match(s) ==
    /\ Len(s) \in {IdLen, IdLen + 1}
    /\ \A i \in 1..IdLen : IsAlnum(s[i])
    /\ Len(s) = IdLen + 1 => s[IdLen + 1] = "\n"

\* the post_id get_post_by_slug works out of its argument
post_id_of(identifier) ==
    IF url_match(identifier) # None THEN url_match(identifier)
    ELSE IF id_match(identifier) THEN identifier
    ELSE None

\* identifier.split('/')[-1]
RECURSIVE LastSegment(_)
LastSegment(s) ==
    IF s = <<>> \/ s[Len(s)] = "/" THEN <<>>
    ELSE Append(LastSegment(SubSeq(s, 1, Len(s) - 1)), s[Len(s)])

SearchBySlugCall(loc) == Call("SearchBySlug", [limit |-> SlugScanLimit], loc)

\* get_post_by_slug that goes straight to the slug scan
get_post_by_slug_scan_first(identifier, loc) == SearchBySlugCall(loc)

\* get_post_by_slug, up to its first request
get_post_by_slug(identifier, loc) ==
    LET post_id == post_id_of(identifier)
    IN  IF post_id # None
        THEN Call("GetPostById", [documentId |-> post_id], loc)
        ELSE SearchBySlugCall(loc)

\* get_post_by_slug giving up when the ID lookup finds nothing
get_post_by_slug_after_id_failing(data, loc) ==
    LET post == Get(Get(data, "post", <<>>), "result", None)
    IN  IF post # None THEN Return(post, loc)
        ELSE Throw(Raise("PostNotFound", <<>>, <<>>))

\* get_post_by_slug, after the reply to GetPostById
get_post_by_slug_after_id(data, loc) ==
    LET post == Get(Get(data, "post", <<>>), "result", None)
    IN  IF post # None THEN Return(post, loc) ELSE SearchBySlugCall(loc)

\* get_post_by_slug, after the reply to SearchBySlug
get_post_by_slug_after_scan(identifier, data, loc) ==
    LET slug  == LastSegment(identifier)
        posts == Get(Get(data, "posts", <<>>), "results", <<>>)
        found == {i \in 1..Len(posts) : Get(posts[i], "slug", None) = slug}
    IN  IF found # {}
        THEN Return(posts[CHOOSE i \in found : \A j \in found : i <= j], loc)
        ELSE Throw(Raise("PostNotFound", identifier, <<>>))

\* search_posts
search_posts(query_str, limit, loc) ==
    Call("SearchPosts", [searchQuery |-> query_str, limit |-> limit], loc)

search_posts_after(data, loc) ==
    Return(Get(Get(data, "posts", <<>>), "results", <<>>), loc)

(***************************************************************************)
(* Drafts                                                                  *)
(***************************************************************************)
\* the variables of create_draft_post with the draft flag lost
create_draft_variables_published(title, contents_markdown, url, question) ==
    [data |-> [title |-> title,
               contents |-> [originalContents |->
                                [type |-> "markdown", data |-> contents_markdown]],
               draft |-> FALSE,
               submitToFrontpage |-> TRUE]]

\* the variables create_draft_post builds
create_draft_variables(title, contents_markdown, url, question) ==
    LET base == [title |-> title,
                 contents |-> [originalContents |->
                                  [type |-> "markdown", data |-> contents_markdown]],
                 draft |-> TRUE,
                 submitToFrontpage |-> TRUE]
        withUrl == IF url # <<>> THEN Put(base, "url", url) ELSE base
        withQuestion == IF question THEN Put(withUrl, "question", TRUE) ELSE withUrl
    IN  [data |-> withQuestion]

\* create_draft_post, after the reply
create_draft_post_after(data, loc) ==
    Return(Get(Get(data, "createPost", <<>>), "data", None), loc)

MyDraftsLimit == 50

\* get_my_drafts, after the reply
get_my_drafts_after(data, loc) ==
    Return(Get(Get(data, "posts", <<>>), "results", <<>>), loc)

(***************************************************************************)
(* Dates.  A datetime is its wall-clock hour and its UTC offset; aware     *)
(* datetimes compare by the instant, wall - off.                           *)
(***************************************************************************)
HoursPerDay == 24

Instant(dt) == dt.wall - dt.off

\* datetime.fromisoformat(s.replace("Z", "+00:00"))
parse_posted_at(stamp) ==
    [wall |-> stamp.wall,
     off  |-> CASE stamp.zone = "Z"      -> 0
                [] stamp.zone = "+00:00" -> 0
                [] stamp.zone = "+01:00" -> 1]

\* datetime.now().astimezone() - timedelta(days=days)
since_date_of(now, days) ==
    [wall |-> now.wall - HoursPerDay * days, off |-> now.off]

\* the date filter with the boundary left out
date_filter_exclusive(items, since_date) ==
    IF since_date # None
    THEN SelectSeq(items, LAMBDA p :
             Instant(parse_posted_at(p.postedAt)) > Instant(since_date))
    ELSE items

\* [p for p in items if fromisoformat(p["postedAt"]...) >= since_date]
date_filter(items, since_date) ==
    IF since_date # None
    THEN SelectSeq(items, LAMBDA p :
             Instant(parse_posted_at(p.postedAt)) >= Instant(since_date))
    ELSE items

(***************************************************************************)
(* Users                                                                   *)
(***************************************************************************)
UserPostsLimit == 50

UserCommentsLimit == 100

get_user_by_slug(slug, loc) == Call("GetUser", [slug |-> slug], loc)

\* get_user_by_slug, after the reply: the user, or None for "User not found"
get_user_by_slug_after(data) == Get(Get(data, "user", <<>>), "result", None)

get_user_posts(user_id, limit, loc) ==
    Call("GetUserPosts", [userId |-> user_id, limit |-> limit], loc)

get_user_posts_after(data, since_date) ==
    date_filter(Get(Get(data, "posts", <<>>), "results", <<>>), since_date)

\* get_user_comments asking for one comment more than its limit
get_user_comments_one_more(user_id, limit, loc) ==
    Call("GetUserComments", [userId |-> user_id, limit |-> limit + 1], loc)

get_user_comments(user_id, limit, loc) ==
    Call("GetUserComments", [userId |-> user_id, limit |-> limit], loc)

get_user_comments_after(data, since_date) ==
    date_filter(Get(Get(data, "comments", <<>>), "results", <<>>), since_date)

(***************************************************************************)
(* Tags                                                                    *)
(***************************************************************************)
TagLookupLimit == 500

TagSearchLimit == 200

TagPostsLimit == 50

get_tag_by_slug(loc) == Call("GetTags", [limit |-> TagLookupLimit], loc)

\* get_tag_by_slug, after the reply: the first tag with that slug, or None
get_tag_by_slug_after(slug, data) ==
    LET tags  == Get(Get(data, "tags", <<>>), "results", <<>>)
        found == {i \in 1..Len(tags) : lower(Get(tags[i], "slug", <<>>)) = lower(slug)}
    IN  IF found = {} THEN None
        ELSE tags[CHOOSE i \in found : \A j \in found : i <= j]

search_tags(loc) == Call("SearchTags", [limit |-> TagSearchLimit], loc)

\* search_tags, after the reply
search_tags_after(query_str, limit, data) ==
    LET tags == Get(Get(data, "tags", <<>>), "results", <<>>)
        query_lower == lower(query_str)
        matching == SelectSeq(tags, LAMBDA t : IsSubstring(query_lower, lower(t.name)))
    IN  SliceTo(matching, limit)

get_posts_by_tag(tag_id, limit, loc) ==
    Call("GetTagPosts", [tagId |-> tag_id, limit |-> limit], loc)

get_posts_by_tag_after(data, since_date) ==
    date_filter(Get(Get(data, "posts", <<>>), "results", <<>>), since_date)

(***************************************************************************)
(* The activity aggregators and the rest of each command: what follows     *)
(* the reply to `query` in command a.command, given the reply's data.      *)
(***************************************************************************)
\* fetch_user_activity and the user, posts, comments branches of main()
UserCommandAfter(a, query, data, loc, now) ==
    CASE query = "GetUser" ->
            LET user == get_user_by_slug_after(data)
                since_date == since_date_of(now, a.days)
                loc2 == Put(Put(loc, "user", user), "since_date", since_date)
            IN  IF user = None THEN Throw(Raise("UserNotFound", a.slug, <<>>))
                ELSE IF a.command = "user" THEN Return(user, loc)
                ELSE IF a.command = "comments"
                THEN get_user_comments(user._id, UserCommentsLimit, loc2)
                ELSE get_user_posts(user._id, UserPostsLimit, loc2)
      [] query = "GetUserPosts" ->
            LET posts == get_user_posts_after(data, loc.since_date)
            IN  IF a.command = "posts" THEN Return(posts, loc)
                ELSE get_user_comments(loc.user._id, UserCommentsLimit,
                                       Put(loc, "posts", posts))
      [] query = "GetUserComments" ->
            LET comments == get_user_comments_after(data, loc.since_date)
            IN  IF a.command = "comments" THEN Return(comments, loc)
                ELSE Return([forum |-> a.forum, user |-> loc.user,
                             posts |-> loc.posts, comments |-> comments,
                             since_date |-> loc.since_date], loc)

\* fetch_topic_activity and the topic, topic-activity, search-topics branches
TopicCommandAfter(a, query, data, loc, now) ==
    CASE query = "GetTags" ->
            LET tag == get_tag_by_slug_after(a.slug, data)
                since_date == since_date_of(now, a.days)
                loc2 == Put(Put(loc, "tag", tag), "since_date", since_date)
            IN  IF tag = None THEN Throw(Raise("TagNotFound", a.slug, <<>>))
                ELSE IF a.command = "topic" THEN Return(tag, loc)
                ELSE get_posts_by_tag(tag._id, TagPostsLimit, loc2)
      [] query = "GetTagPosts" ->
            Return([forum |-> a.forum, topic |-> loc.tag,
                    posts |-> get_posts_by_tag_after(data, loc.since_date),
                    since_date |-> loc.since_date], loc)
      [] query = "SearchTags" ->
            Return(search_tags_after(a.query, a.limit, data), loc)

After(a, query, data, loc, now) ==
    CASE query \in {"GetUser", "GetUserPosts", "GetUserComments"} ->
            UserCommandAfter(a, query, data, loc, now)
      [] query \in {"GetTags", "GetTagPosts", "SearchTags"} ->
            TopicCommandAfter(a, query, data, loc, now)
      [] query = "GetPostById"  -> get_post_by_slug_after_id(data, loc)
      [] query = "SearchBySlug" -> get_post_by_slug_after_scan(a.slug, data, loc)
      [] query = "SearchPosts"  -> search_posts_after(data, loc)
      [] query = "CreatePost"   -> create_draft_post_after(data, loc)
      [] query = "GetMyDrafts"  -> get_my_drafts_after(data, loc)

(***************************************************************************)
(* Inputs: command lines, the files around the program, the clock and the  *)
(* servers' replies, each from a small set.                                *)
(***************************************************************************)
\* the longest list of items drawn at will for a reply
MaxItems == 2

Seqs(S, n) == UNION {[1..k -> S] : k \in 0..n}

Text_lw == << "L","W" >>

Text_af == << " ","a","f"," " >>

Text_ea == << "e","a" >>

Text_EAForum == << "E","A"," ","F","o","r","u","m" >>

TokenA == << "t","A" >>

TokenB == << "t","B" >>

\* --forum for the commands that use a token; "EA Forum" is no forum
ForumsAuth == {Text_lw, Text_af, EAFORUM, Text_EAForum}

\* --forum for the commands that only read
ForumsRead == {LESSWRONG, Text_ea, Text_EAForum}

\* --token
Tokens == {TokenA, TokenB}

DefaultArgs ==
    [command |-> "", forum |-> LESSWRONG, slug |-> <<>>, query |-> <<>>,
     days |-> 7, limit |-> 10, title |-> <<>>, content |-> <<>>, file |-> "",
     url |-> <<>>, question |-> FALSE, token |-> <<>>]

PostId17 ==
    << "p","T","7","5","M","F","s","L","J","A","r","r","B","G","k","a","F" >>

MySlug == << "m","y","-","s","l","u","g" >>

Identifiers ==
    { PostId17,
      << "h",":" >> \o PostsPrefix \o PostId17 \o << "/" >> \o MySlug,
      PostsPrefix \o << "a","b","1" >> \o PostsPrefix \o << "c","d","2","/" >>,
      MySlug,
      SubSeq(PostId17, 1, IdLen - 1),
      PostsPrefix \o << "a","b","1" >>,
      PostsPrefix \o << "a","-","b","/" >> \o MySlug }

TagQueries ==
    { << "a","l","i","g","n","m","e","n","t" >>, << "A","L","I","G","N" >>,
      << "z","z" >> }

TagSlugs == { << "A","I","-","a","l","i","g","n","m","e","n","t" >>, << "n","o" >> }

UserSlug == << "b","o","b" >>

\* the command lines argparse accepts
CommandLines ==
    {DefaultArgs}
    \cup {[DefaultArgs EXCEPT !.command = "list-forums", !.forum = f] : f \in ForumsRead}
    \cup {[DefaultArgs EXCEPT !.command = "set-token", !.forum = f, !.token = t] :
            f \in ForumsAuth \cup {ALIGNMENTFORUM}, t \in Tokens}
    \cup {[DefaultArgs EXCEPT !.command = "create-draft", !.forum = f,
                              !.title = << "T" >>, !.content = c[1], !.file = c[2],
                              !.url = u[1], !.question = u[2]] :
            f \in ForumsAuth,
            c \in { << << "C" >>, "" >>, << << "C" >>, "post.md" >>,
                    << <<>>, "post.md" >>, << <<>>, "missing.md" >>, << <<>>, "" >> },
            u \in { << <<>>, FALSE >>, << << "u" >>, FALSE >>, << <<>>, TRUE >> }}
    \cup {[DefaultArgs EXCEPT !.command = "my-drafts", !.forum = f, !.limit = MyDraftsLimit] :
            f \in ForumsAuth}
    \cup {[DefaultArgs EXCEPT !.command = c, !.forum = f, !.slug = UserSlug, !.days = 1] :
            c \in {"user", "user-activity", "comments"}, f \in ForumsRead}
    \cup {[DefaultArgs EXCEPT !.command = "posts", !.forum = f, !.slug = UserSlug,
                              !.days = d] : f \in ForumsRead, d \in {1, 2}}
    \cup {[DefaultArgs EXCEPT !.command = "topic", !.forum = f, !.slug = g] :
            f \in ForumsRead, g \in TagSlugs}
    \cup {[DefaultArgs EXCEPT !.command = "topic-activity", !.forum = f, !.slug = g,
                              !.days = 1] : f \in ForumsRead, g \in TagSlugs}
    \cup {[DefaultArgs EXCEPT !.command = "search-topics", !.forum = f, !.query = q,
                              !.limit = l] :
            f \in ForumsRead, q \in TagQueries, l \in {-1, 0, 1, 10}}
    \cup {[DefaultArgs EXCEPT !.command = "post", !.forum = f, !.slug = i] :
            f \in ForumsRead, i \in Identifiers}
    \cup {[DefaultArgs EXCEPT !.command = "search", !.forum = f, !.query = << "q" >>,
                              !.limit = 20] : f \in ForumsRead}

\* open(args.file).read()
read_file(path) ==
    IF path = "post.md"
    THEN [text |-> << "F" >>, err |-> NoError]
    ELSE [text |-> <<>>, err |-> Raise("FileNotFound", <<>>, <<>>)]

\* datetime.now().astimezone(), in a UTC or a UTC+1 zone
NowWall == 4 * HoursPerDay

Clocks == {[wall |-> NowWall, off |-> tz] : tz \in {0, 1}}

\* postedAt values around the cutoffs
Stamps ==
    { [wall |-> NowWall - HoursPerDay,     zone |-> "Z"],
      [wall |-> NowWall - HoursPerDay,     zone |-> "+01:00"],
      [wall |-> NowWall - 2 * HoursPerDay, zone |-> "Z"] }

\* lists of posts, each with its postedAt
ItemLists ==
    {[i \in 1..Len(st) |-> [_id |-> i, postedAt |-> st[i]]] : st \in Seqs(Stamps, MaxItems)}

\* lists of comments
CommentLists == {l \in ItemLists : Len(l) < MaxItems}

Tag1 == [_id |-> "t1", slug |-> << "a","i","-","a","l","i","g","n","m","e","n","t" >>,
         name |-> << "A","I"," ","A","l","i","g","n","m","e","n","t" >>]

Tag2 == [_id |-> "t2", slug |-> << "e","p","i","s","t","e","m","o","l","o","g","y" >>,
         name |-> << "E","p","i","s","t","e","m","o","l","o","g","y" >>]

Tag3 == [_id |-> "t3", slug |-> << "m","i","s","a","l","i","g","n","m","e","n","t" >>,
         name |-> << "M","i","s","a","l","i","g","n","m","e","n","t" >>]

TagLists ==
    {l \in Seqs({Tag1, Tag2, Tag3}, MaxItems) :
        \A i, j \in 1..Len(l) : i # j => l[i] # l[j]}

Post1 == [_id |-> "p1", slug |-> MySlug,
          postedAt |-> [wall |-> NowWall, zone |-> "Z"]]

Post2 == [_id |-> "p2", slug |-> << "o","t","h","e","r" >>,
          postedAt |-> [wall |-> NowWall, zone |-> "Z"]]

PostLists == { <<>>, << Post1 >>, << Post2 >>, << Post2, Post1 >> }

User1 == [_id |-> "u1", slug |-> UserSlug]

Draft1 == [_id |-> "d1", title |-> << "T" >>, draft |-> TRUE]

\* the `data` a server may send in reply to each query
DataOptions(query) ==
    CASE query = "GetUser" ->
            { [user |-> [result |-> User1]], [user |-> [result |-> None]] }
      [] query \in {"GetUserPosts", "GetTagPosts"} ->
            {[posts |-> [results |-> l]] : l \in ItemLists}
      [] query = "GetUserComments" ->
            {[comments |-> [results |-> l]] : l \in CommentLists}
      [] query \in {"GetTags", "SearchTags"} ->
            {[tags |-> [results |-> l]] : l \in TagLists}
      [] query = "GetPostById" ->
            { [post |-> [result |-> Post1]], [post |-> [result |-> None]] }
      [] query \in {"SearchBySlug", "SearchPosts", "GetMyDrafts"} ->
            {[posts |-> [results |-> l]] : l \in PostLists}
      [] query = "CreatePost" ->
            { [createPost |-> [data |-> Draft1]], [createPost |-> [data |-> None]] }

\* one `data` for the replies that carry something besides it
DataSample(query) ==
    CASE query = "GetUser" -> [user |-> [result |-> None]]
      [] query = "GetUserComments" -> [comments |-> [results |-> <<>>]]
      [] query \in {"GetTags", "SearchTags"} -> [tags |-> [results |-> << Tag2 >>]]
      [] query = "GetPostById" -> [post |-> [result |-> Post1]]
      [] query = "CreatePost" -> [createPost |-> [data |-> Draft1]]
      [] OTHER -> [posts |-> [results |-> <<>>]]

OneError == << "boom" >>

\* the replies a server may send to `query`: a 2xx, 3xx, 4xx or 5xx status,
\* a body with or without `data` and `errors`, a body that is no JSON object
Responses(query) ==
    {Response(200, TRUE, [data |-> d]) : d \in DataOptions(query)}
    \cup {Response(st, TRUE, [data |-> DataSample(query)]) : st \in {304, 404}}
    \cup {Response(200, TRUE, [data |-> DataSample(query), errors |-> e]) :
            e \in {<<>>, OneError}}
    \cup { Response(200, TRUE, [errors |-> OneError]),
           Response(200, TRUE, <<>>),
           Response(200, FALSE, <<>>),
           Response(500, FALSE, <<>>) }

\* the queries whose `limit` variable caps a list of dated items, and the
\* key of that list in the reply
CappedQueries == {"GetUserPosts", "GetUserComments", "GetTagPosts"}

ListKey(query) == IF query = "GetUserComments" THEN "comments" ELSE "posts"

\* one item more than `cap`: the first and the last posted within the last
\* day, the others a day before
LongList(cap) ==
    [i \in 1..(cap + 1) |->
        [_id |-> i,
         postedAt |-> [wall |-> IF i \in {1, cap + 1} THEN NowWall - HoursPerDay
                                ELSE NowWall - 2 * HoursPerDay,
                       zone |-> "Z"]]]

\* what a prolific user or topic has on the server: more than the query's cap
Candidates(query) ==
    CASE query = "GetUserPosts"    -> {LongList(UserPostsLimit)}
      [] query = "GetUserComments" -> {LongList(UserCommentsLimit)}
      [] query = "GetTagPosts"     -> {LongList(TagPostsLimit)}
      [] OTHER -> {}

\* `terms: {limit: $limit}`: the server sends the first `limit` candidates
served(candidates, limit) == SubSeq(candidates, 1, Min(limit, Len(candidates)))

\* a reply, and the list on the server it was cut from
Exchanges(payload) ==
    {[resp |-> r,
      candidates |-> IF payload.query \in CappedQueries
                     THEN Get(Get(Get(r.body, "data", <<>>), ListKey(payload.query), <<>>),
                              "results", <<>>)
                     ELSE <<>>] : r \in Responses(payload.query)}
    \cup {[resp |-> Response(200, TRUE,
                             [data |-> (ListKey(payload.query) :>
                                          [results |-> served(c, payload.variables.limit)])]),
           candidates |-> c] : c \in Candidates(payload.query)}

(***************************************************************************)
(* main(): one invocation after another, each from parse_args() to exit.   *)
(***************************************************************************)
\* config.json as the first invocation may find it: absent, or written by
\* hand, with an alignmentforum entry and an empty eaforum token
InitialConfigs ==
    { NoFile,
      File([subscriptions |-> << "ai-safety" >>, digest_days |-> 14,
            output_dir |-> "out",
            auth |-> (ALIGNMENTFORUM :> TokenB) @@ (EAFORUM :> <<>>)]) }

Init ==
    /\ cfgFile \in InitialConfigs
    /\ pc = "idle"
    /\ args = DefaultArgs
    /\ pending = None
    /\ reqs = <<>>
    /\ exchange = None
    /\ local = <<>>
    /\ result = None
    /\ err = NoError
    /\ stdout = <<>>
    /\ exit_code = -1

\* the process ends: sys.exit(code), or main() returning
Exit(code, e, value, out, loc) ==
    /\ pc' = "done"
    /\ exit_code' = code
    /\ err' = e
    /\ result' = value
    /\ stdout' = << out >>
    /\ local' = loc
    /\ pending' = None

\* the except clauses of main() without their sys.exit(1)
Failed_exit_0(e, loc) ==
    Exit(0, e, None, IF e.kind = "HTTPError" THEN "HTTP Error" ELSE "Error", loc)

\* the except clauses of main() sending a failed request once more
Failed_retrying(e, loc) ==
    IF pending # None
    THEN /\ pc' = "post"
         /\ pending' = pending
         /\ local' = loc
         /\ UNCHANGED << result, err, stdout, exit_code >>
    ELSE Exit(1, e, None, IF e.kind = "HTTPError" THEN "HTTP Error" ELSE "Error", loc)

\* the except clauses of main(): print the error, sys.exit(1)
Failed(e, loc) ==
    Exit(1, e, None, IF e.kind = "HTTPError" THEN "HTTP Error" ELSE "Error", loc)

\* graphql_query got as far as requests.post, or raised
Send(g, loc) ==
    IF g.err.kind # "none"
    THEN Failed(g.err, loc)
    ELSE /\ pc' = "post"
         /\ pending' = g.req
         /\ local' = loc
         /\ UNCHANGED << result, err, stdout, exit_code >>

\* the command's function returned, raised, or makes its next query; a
\* returned value is printed, and create-draft's print subscripts it
Proceed(o) ==
    IF o.kind = "raise" THEN Failed(o.err, local)
    ELSE IF o.kind = "call"
    THEN Send(graphql_query(o.query, o.variables, args.forum), o.local)
    ELSE IF args.command = "create-draft" /\ o.value = None
    THEN Failed(Raise("TypeError", <<>>, <<>>), o.local)
    ELSE Exit(0, NoError, o.value, "ok", o.local)

Fresh ==
    /\ pending' = None
    /\ reqs' = <<>>
    /\ exchange' = None
    /\ local' = <<>>
    /\ result' = None
    /\ err' = NoError

\* parser.parse_args() accepts the command line
ParseArgs ==
    /\ pc \in {"idle", "done", "rejected"}
    /\ \E a \in CommandLines : args' = a
    /\ pc' = "parsed"
    /\ Fresh
    /\ stdout' = <<>>
    /\ exit_code' = -1
    /\ UNCHANGED cfgFile

\* parser.parse_args() rejects the command line: usage message, exit code 2
UsageError ==
    /\ pc \in {"idle", "done", "rejected"}
    /\ args' = DefaultArgs
    /\ pc' = "rejected"
    /\ Fresh
    /\ stdout' = << "usage" >>
    /\ exit_code' = 2
    /\ UNCHANGED cfgFile

\* if not args.command: parser.print_help(); sys.exit(1)
NoCommand ==
    /\ pc = "parsed"
    /\ args.command = ""
    /\ Exit(1, NoError, None, "help", local)
    /\ UNCHANGED << cfgFile, args, reqs, exchange >>

ListForums ==
    /\ pc = "parsed"
    /\ args.command = "list-forums"
    /\ Exit(0, NoError, None, "ok", local)
    /\ UNCHANGED << cfgFile, args, reqs, exchange >>

\* set-token: save_auth_token(forum, args.token)
SetToken ==
    /\ pc = "parsed"
    /\ args.command = "set-token"
    /\ LET s == save_auth_token(cfgFile, args.forum, args.token)
       IN  /\ cfgFile' = s.file
           /\ IF s.err.kind # "none"
              THEN Failed(s.err, local)
              ELSE Exit(0, NoError, s.key, "ok", local)
    /\ UNCHANGED << args, reqs, exchange >>

\* create-draft: the content from --content or --file, then create_draft_post
CreateDraft ==
    /\ pc = "parsed"
    /\ args.command = "create-draft"
    /\ IF args.content = <<>> /\ args.file = ""
       THEN /\ Exit(1, NoError, None, "Error: Must specify --content or --file", local)
            /\ UNCHANGED cfgFile
       ELSE LET f == read_file(args.file)
                contents_markdown == IF args.content # <<>> THEN args.content ELSE f.text
                variables == create_draft_variables(args.title, contents_markdown,
                                                    args.url, args.question)
            IN  IF args.content = <<>> /\ f.err.kind # "none"
                THEN Failed(f.err, local) /\ UNCHANGED cfgFile
                ELSE /\ Send(graphql_query_authenticated(cfgFile, "CreatePost", variables,
                                                         args.forum),
                             [variables |-> variables])
                     /\ cfgFile' = config_file_after_load(cfgFile)
    /\ UNCHANGED << args, reqs, exchange >>

MyDrafts ==
    /\ pc = "parsed"
    /\ args.command = "my-drafts"
    /\ Send(graphql_query_authenticated(cfgFile, "GetMyDrafts", [limit |-> args.limit],
                                        args.forum),
            local)
    /\ cfgFile' = config_file_after_load(cfgFile)
    /\ UNCHANGED << args, reqs, exchange >>

\* user, user-activity, posts, comments: each starts with get_user_by_slug
UserCommand ==
    /\ pc = "parsed"
    /\ args.command \in {"user", "user-activity", "posts", "comments"}
    /\ Proceed(get_user_by_slug(args.slug, local))
    /\ UNCHANGED << cfgFile, args, reqs, exchange >>

\* topic, topic-activity: each starts with get_tag_by_slug
TopicCommand ==
    /\ pc = "parsed"
    /\ args.command \in {"topic", "topic-activity"}
    /\ Proceed(get_tag_by_slug(local))
    /\ UNCHANGED << cfgFile, args, reqs, exchange >>

SearchTopics ==
    /\ pc = "parsed"
    /\ args.command = "search-topics"
    /\ Proceed(search_tags(local))
    /\ UNCHANGED << cfgFile, args, reqs, exchange >>

Post ==
    /\ pc = "parsed"
    /\ args.command = "post"
    /\ Proceed(get_post_by_slug(args.slug, local))
    /\ UNCHANGED << cfgFile, args, reqs, exchange >>

Search ==
    /\ pc = "parsed"
    /\ args.command = "search"
    /\ Proceed(search_posts(args.query, args.limit, local))
    /\ UNCHANGED << cfgFile, args, reqs, exchange >>

\* requests.post and the rest of the call: the reply is unwrapped and the
\* command goes on with its data
HttpPost ==
    /\ pc = "post"
    /\ \E x \in Exchanges(pending.payload), now \in Clocks :
          LET resp == x.resp
              out  == unwrap(resp)
          IN  /\ reqs' = Append(reqs, pending)
              /\ exchange' = [resp |-> resp, out |-> out, candidates |-> x.candidates]
              /\ IF out.err.kind # "none"
                 THEN Failed(out.err, local)
                 ELSE Proceed(After(args, pending.payload.query, out.data, local, now))
    /\ UNCHANGED << cfgFile, args >>

Next ==
    \/ ParseArgs
    \/ UsageError
    \/ NoCommand
    \/ ListForums
    \/ SetToken
    \/ CreateDraft
    \/ MyDrafts
    \/ UserCommand
    \/ TopicCommand
    \/ SearchTopics
    \/ Post
    \/ Search
    \/ HttpPost

Spec == Init /\ [][Next]_vars

(***************************************************************************)
(* resolve_forum on its own: one name in, one key or one error out.        *)
(***************************************************************************)
\* every other letter in upper case
alternate(s) == [i \in 1..Len(s) |-> IF i % 2 = 0 THEN upper_char(s[i]) ELSE s[i]]

\* the keys and the aliases of the registry
ForumNames ==
    {FORUMS[i].key : i \in 1..Len(FORUMS)}
    \cup UNION {{FORUMS[i].aliases[j] : j \in 1..Len(FORUMS[i].aliases)} :
                    i \in 1..Len(FORUMS)}

\* names that are no forum's
StrangeNames ==
    { <<>>, Text_EAForum, << "l","w","2" >>, << "l"," ","w" >>, << "w","l" >>,
      << "l","e","s","s"," ","w","r","o","n","g" >>, << "e" >>,
      << "A","l","i","g","n","m","e","n","t"," ","F","o","r","u","m" >> }

ResolveInputs ==
    ForumNames
    \cup {upper(n) : n \in ForumNames}
    \cup {capitalize(n) : n \in ForumNames}
    \cup {alternate(n) : n \in ForumNames}
    \cup {<< " " >> \o n : n \in ForumNames}
    \cup {n \o << "\n" >> : n \in ForumNames}
    \cup {<< "\t" >> \o upper(n) \o << " ", " " >> : n \in ForumNames}
    \cup StrangeNames

InitResolve ==
    /\ cfgFile = NoFile
    /\ pc = "resolve"
    /\ \E f \in ResolveInputs : args = [DefaultArgs EXCEPT !.forum = f]
    /\ pending = None
    /\ reqs = <<>>
    /\ exchange = None
    /\ local = <<>>
    /\ result = None
    /\ err = NoError
    /\ stdout = <<>>
    /\ exit_code = -1

\* resolve_forum(args.forum)
Resolve ==
    /\ pc = "resolve"
    /\ pc' = "resolved"
    /\ result' = resolve_forum(args.forum).key
    /\ err' = resolve_forum(args.forum).err
    /\ UNCHANGED << cfgFile, args, pending, reqs, exchange, local, stdout, exit_code >>

SpecResolve == InitResolve /\ [][Resolve]_vars

(***************************************************************************)
(* Two set-token invocations at once.  Each is a process of its own with   *)
(* its own memory; CONFIG_FILE is all they share, and nothing locks it.    *)
(* save_auth_token is three steps on the file: load_config reads it,       *)
(* open(CONFIG_FILE, "w") truncates it, json.dump and the close write it.  *)
(***************************************************************************)
Procs == {1, 2}

\* CONFIG_FILE holding no JSON document: truncated by an open(.., "w"), or
\* one document written over the start of a longer one
Unparseable == [exists |-> TRUE, data |-> <<>>, parses |-> FALSE]

Parses(file) == "parses" \notin DOMAIN file

\* save_auth_token up to its open(): the config in memory with the token
\* put in, the key, or the error of json.load or of resolve_forum
save_auth_token_in_memory(file, forum, token) ==
    IF ~Parses(file)
    THEN [config |-> <<>>, key |-> <<>>, err |-> Raise("JSONDecodeError", <<>>, <<>>)]
    ELSE LET s == save_auth_token(file, forum, token)
         IN  [config |-> IF s.err.kind = "none" THEN s.file.data ELSE <<>>,
              key    |-> s.key,
              err    |-> s.err]

\* a json.dump that reads the file again and keeps the tokens it finds
dumped_merging(file, config) ==
    IF file.exists /\ Parses(file)
    THEN {File(Put(config, "auth", config.auth @@ Get(file.data, "auth", <<>>)))}
    ELSE {File(config)}

\* CONFIG_FILE after json.dump(config, f) and the close, f opened with "w"
\* before: the bytes go in from offset 0, so over a file that another
\* process has written since the open they leave this document, or this
\* document followed by the tail of a longer one
dumped(file, config) ==
    IF file.exists /\ Parses(file)
    THEN {File(config), Unparseable}
    ELSE {File(config)}

\* the set-token command lines of the concurrent invocations
RaceCommandLines ==
    {[DefaultArgs EXCEPT !.command = "set-token", !.forum = f, !.token = t] :
        f \in {LESSWRONG, Text_ea, Text_af, Text_EAForum}, t \in Tokens}

InitRace ==
    /\ cfgFile \in InitialConfigs
    /\ pc = [p \in Procs |-> "parsed"]
    /\ args \in [Procs -> RaceCommandLines]
    /\ local = [p \in Procs |-> <<>>]
    /\ result = [p \in Procs |-> None]
    /\ err = [p \in Procs |-> NoError]
    /\ stdout = [p \in Procs |-> <<>>]
    /\ exit_code = [p \in Procs |-> -1]
    /\ pending = None
    /\ reqs = <<>>
    /\ exchange = None

\* config = load_config(); config["auth"][forum_key] = token
RaceLoad(p) ==
    /\ pc[p] = "parsed"
    /\ LET m == save_auth_token_in_memory(cfgFile, args[p].forum, args[p].token)
       IN  IF m.err.kind # "none"
           THEN /\ pc' = [pc EXCEPT ![p] = "done"]
                /\ err' = [err EXCEPT ![p] = m.err]
                /\ exit_code' = [exit_code EXCEPT ![p] = 1]
                /\ stdout' = [stdout EXCEPT ![p] = << "Error" >>]
                /\ UNCHANGED << local, result >>
           ELSE /\ pc' = [pc EXCEPT ![p] = "loaded"]
                /\ local' = [local EXCEPT ![p] = m.config]
                /\ result' = [result EXCEPT ![p] = m.key]
                /\ UNCHANGED << err, exit_code, stdout >>
    /\ cfgFile' = config_file_after_load(cfgFile)
    /\ UNCHANGED << args, pending, reqs, exchange >>

\* with open(CONFIG_FILE, "w") as f:
RaceOpen(p) ==
    /\ pc[p] = "loaded"
    /\ pc' = [pc EXCEPT ![p] = "opened"]
    /\ cfgFile' = Unparseable
    /\ UNCHANGED << args, pending, reqs, exchange, local, result, err, stdout, exit_code >>

\* json.dump(config, f, indent=2), the close, return forum_key, the prints
RaceDump(p) ==
    /\ pc[p] = "opened"
    /\ cfgFile' \in dumped(cfgFile, local[p])
    /\ pc' = [pc EXCEPT ![p] = "done"]
    /\ exit_code' = [exit_code EXCEPT ![p] = 0]
    /\ stdout' = [stdout EXCEPT ![p] = << "ok" >>]
    /\ UNCHANGED << args, pending, reqs, exchange, local, result, err >>

NextRace == \E p \in Procs : RaceLoad(p) \/ RaceOpen(p) \/ RaceDump(p)

SpecRace == InitRace /\ [][NextRace]_vars

(***************************************************************************)
(* Properties                                                              *)
(***************************************************************************)
\* s is `name` in some letter case
SameLettersAnyCase(s, name) ==
    /\ Len(s) = Len(name)
    /\ \A j \in 1..Len(name) : s[j] \in {name[j], upper_char(name[j])}

\* s is `name` in some letter case, with white space around it
SameLettersPadded(s, name) ==
    \E i \in 1..(Len(s) + 1) :
        /\ i + Len(name) - 1 <= Len(s)
        /\ SameLettersAnyCase(SubSeq(s, i, i + Len(name) - 1), name)
        /\ \A j \in 1..Len(s) :
              (j < i \/ j > i + Len(name) - 1) => s[j] \in Whitespace

\* the names under which forum i is registered
NamesOf(i) == {FORUMS[i].key} \cup {FORUMS[i].aliases[j] : j \in 1..Len(FORUMS[i].aliases)}

\* C1: a forum's key and each of its aliases, in any letter case, resolve to
\* that forum's key without an error, as the key itself does.
C1_AliasComplete ==
    pc = "resolved" =>
        \A i \in 1..Len(FORUMS) : \A name \in NamesOf(i) :
            SameLettersAnyCase(args.forum, name) =>
                /\ err = NoError
                /\ result = FORUMS[i].key
                /\ SameLettersAnyCase(args.forum, FORUMS[i].key) => result = lower(args.forum)

C1_Witness ==
    /\ pc = "resolved"
    /\ args.forum = << "A","L","I","G","N","M","E","N","T","-","F","O","R","U","M" >>
    /\ result = ALIGNMENTFORUM

\* C2 as stated: a name that is, in no letter case, a key or an alias is
\* refused with the unknown-forum error listing every key, and no key is
\* returned.
C2_UnknownRefused ==
    pc = "resolved" =>
        ((\A n \in ForumNames : ~SameLettersAnyCase(args.forum, n)) =>
            /\ err.kind = "UnknownForum"
            /\ \A i \in 1..Len(FORUMS) : InList(FORUMS[i].key, err.options)
            /\ result = <<>>)

\* C2 amended: a name that, with the white space around it taken off, is in
\* no letter case a key or an alias is refused with the unknown-forum error
\* listing every key, and no key is returned.
C2_UnknownRefusedTrimmed ==
    pc = "resolved" =>
        ((\A n \in ForumNames : ~SameLettersPadded(args.forum, n)) =>
            /\ err.kind = "UnknownForum"
            /\ \A i \in 1..Len(FORUMS) : InList(FORUMS[i].key, err.options)
            /\ result = <<>>)

C2_Witness ==
    /\ pc = "resolved"
    /\ args.forum = Text_EAForum
    /\ err.kind = "UnknownForum"
    /\ err.options = << LESSWRONG, EAFORUM, ALIGNMENTFORUM >>

\* the forum a name stands for: its place in the registry, 0 for none
ForumOf(name) ==
    IF \E i \in 1..Len(FORUMS) : \E n \in NamesOf(i) : SameLettersPadded(name, n)
    THEN CHOOSE i \in 1..Len(FORUMS) : \E n \in NamesOf(i) : SameLettersPadded(name, n)
    ELSE 0

\* the entry of config.json that holds the token of forum i: the Alignment
\* Forum shares LessWrong's
TokenSlot(i) == IF FORUMS[i].key = EAFORUM THEN EAFORUM ELSE LESSWRONG

\* the auth mapping in config.json, empty when there is no file or no mapping
StoredAuth == IF cfgFile.exists THEN Get(cfgFile.data, "auth", <<>>) ELSE <<>>

\* C3: lesswrong and alignmentforum always read the same token, and after a
\* set-token for either of them (by key or alias) with token t both read t.
C3_TokenFolding ==
    /\ get_auth_token(cfgFile, LESSWRONG).token = get_auth_token(cfgFile, ALIGNMENTFORUM).token
    /\ (/\ pc = "done"
        /\ args.command = "set-token"
        /\ ForumOf(args.forum) # 0
        /\ TokenSlot(ForumOf(args.forum)) = LESSWRONG)
       => /\ get_auth_token(cfgFile, LESSWRONG).token = args.token
          /\ get_auth_token(cfgFile, ALIGNMENTFORUM).token = args.token
          /\ get_auth_token(cfgFile, Text_af).err = NoError

C3_Witness ==
    /\ pc = "done"
    /\ args.command = "set-token"
    /\ args.forum = Text_af
    /\ args.token = TokenA
    /\ get_auth_token(cfgFile, LESSWRONG).token = TokenA
    /\ ALIGNMENTFORUM \in DOMAIN StoredAuth

\* the command line reaches graphql_query_authenticated
CallsAuthenticated ==
    \/ args.command = "my-drafts"
    \/ /\ args.command = "create-draft"
       /\ args.content # <<>> \/ read_file(args.file).err = NoError

\* C4: an authenticated command for a forum with no stored token sends no
\* request at all and ends with the no-token error.
C4_NoTokenNoRequest ==
    (/\ pc \in {"post", "done"}
     /\ CallsAuthenticated
     /\ ForumOf(args.forum) # 0
     /\ TokenSlot(ForumOf(args.forum)) \notin DOMAIN StoredAuth)
    => /\ reqs = <<>>
       /\ pending = None
       /\ pc = "done"
       /\ err.kind = "NoToken"
       /\ exit_code = 1

C4_Witness ==
    /\ pc = "done"
    /\ args.command = "create-draft"
    /\ args.forum = Text_af
    /\ cfgFile.exists
    /\ EAFORUM \in DOMAIN StoredAuth
    /\ LESSWRONG \notin DOMAIN StoredAuth
    /\ err.kind = "NoToken"
    /\ reqs = <<>>

\* C5 as stated: the dispatcher raises on a status outside 2xx or on a
\* non-empty `errors`, and otherwise returns `data`, or {} when there is none.
C5_RaisesOrReturns ==
    exchange # None =>
        LET r == exchange.resp
            o == exchange.out
        IN  IF \/ ~(200 <= r.status /\ r.status <= 299)
               \/ Get(r.body, "errors", <<>>) # <<>>
            THEN o.err # NoError
            ELSE /\ o.err = NoError
                 /\ o.data = Get(r.body, "data", <<>>)

\* C5 amended: the dispatcher raises on a 4xx or 5xx status, on a body that
\* is no JSON object, or on a body with an `errors` key, empty or not; in
\* every other case (a 1xx, 2xx or 3xx status included) it returns `data`,
\* or {} when there is none; it never raises and returns data.
C5_RaisesOrReturnsAmended ==
    exchange # None =>
        LET r == exchange.resp
            o == exchange.out
        IN  /\ IF \/ (400 <= r.status /\ r.status <= 599)
                  \/ ~r.object
                  \/ "errors" \in DOMAIN r.body
               THEN o.err # NoError /\ o.data = <<>>
               ELSE /\ o.err = NoError
                    /\ o.data = Get(r.body, "data", <<>>)
            /\ o.err # NoError => pc = "done" /\ err = o.err /\ result = None

C5_Witness ==
    /\ exchange # None
    /\ exchange.resp.status = 200
    /\ exchange.resp.object
    /\ DOMAIN exchange.resp.body = {"data", "errors"}
    /\ exchange.resp.body.errors = <<>>
    /\ exchange.out.err.kind = "GraphQLErrors"

\* C6 as stated: the exit code is 1 when an error was raised and 0 otherwise.
C6_ExitCode ==
    pc \in {"done", "rejected"} =>
        exit_code = IF err # NoError THEN 1 ELSE 0

\* C6 amended: the exit code is 2 when argparse rejects the command line;
\* otherwise 1 when an error was raised, when no subcommand was given, or
\* when create-draft got neither --content nor --file; and 0 otherwise.
C6_ExitCodeAmended ==
    /\ pc \in {"done", "rejected"} =>
        exit_code = IF pc = "rejected" THEN 2
                    ELSE IF \/ err # NoError
                            \/ args.command = ""
                            \/ /\ args.command = "create-draft"
                               /\ args.content = <<>>
                               /\ args.file = ""
                    THEN 1
                    ELSE 0
    /\ pc \notin {"done", "rejected"} => exit_code = -1 /\ err = NoError

C6_Witness ==
    /\ pc = "done"
    /\ args.command = "user"
    /\ err.kind = "HTTPError"
    /\ exit_code = 1
    /\ stdout = << "HTTP Error" >>

\* the first request of the invocation, sent or about to be
FirstRequest == IF reqs # <<>> THEN reqs[1] ELSE pending

\* s holds /posts/<id>/ at position i, <id> being n letters and digits
IdAt(s, i, n) ==
    /\ n >= 1
    /\ i + Len(PostsPrefix) + n <= Len(s)
    /\ SubSeq(s, i, i + Len(PostsPrefix) - 1) = PostsPrefix
    /\ \A k \in 1..n : IsAlnum(s[i + Len(PostsPrefix) - 1 + k])
    /\ s[i + Len(PostsPrefix) + n] = "/"

\* C7: for a 17-character alphanumeric identifier the first request is the
\* ID lookup of that identifier, and every slug scan comes after it; for a
\* URL holding /posts/<id>/ the first request is the ID lookup of exactly
\* <id> (the first such <id> in the URL).
C7_IdLookupFirst ==
    (args.command = "post" /\ FirstRequest # None) =>
        /\ (Len(args.slug) = IdLen /\ \A k \in 1..IdLen : IsAlnum(args.slug[k])) =>
              /\ FirstRequest.payload.query = "GetPostById"
              /\ FirstRequest.payload.variables = [documentId |-> args.slug]
              /\ \A k \in 1..Len(reqs) : reqs[k].payload.query = "SearchBySlug" => k > 1
        /\ \A i \in 1..Len(args.slug), n \in 1..Len(args.slug) :
              (/\ IdAt(args.slug, i, n)
               /\ \A i2 \in 1..(i - 1), n2 \in 1..Len(args.slug) : ~IdAt(args.slug, i2, n2))
              => /\ FirstRequest.payload.query = "GetPostById"
                 /\ FirstRequest.payload.variables =
                       [documentId |-> SubSeq(args.slug, i + Len(PostsPrefix),
                                              i + Len(PostsPrefix) + n - 1)]

C7_Witness ==
    /\ pc = "done"
    /\ args.command = "post"
    /\ args.slug = << "h",":" >> \o PostsPrefix \o PostId17 \o << "/" >> \o MySlug
    /\ Len(reqs) = 2
    /\ reqs[1].payload.variables.documentId = PostId17
    /\ reqs[2].payload.query = "SearchBySlug"
    /\ result = Post1

\* the UTC hour a postedAt value names
StampInstant(stamp) == stamp.wall - (IF stamp.zone = "+01:00" THEN 1 ELSE 0)

\* `kept` is `fetched` without the items older than the cutoff, in order
\* (an item's _id is its place in `fetched`)
KeptSince(fetched, kept, cutoff) ==
    /\ \A i \in 1..Len(fetched) :
          (\E j \in 1..Len(kept) : kept[j] = fetched[i])
              <=> StampInstant(fetched[i].postedAt) >= cutoff
    /\ \A j \in 1..Len(kept) : kept[j]._id \in 1..Len(fetched) /\ fetched[kept[j]._id] = kept[j]
    /\ \A j, k \in 1..Len(kept) : j < k => kept[j]._id < kept[k]._id

\* the list the last reply carried under `key`, empty when it carried none
Fetched(key) ==
    Get(Get(Get(exchange.resp.body, "data", <<>>), key, <<>>), "results", <<>>)

LastQuery == reqs[Len(reqs)].payload.query

\* C8: what get_user_posts, get_user_comments and get_posts_by_tag return is
\* the fetched list without the items older than since_date, in the fetched
\* order; an item posted exactly at since_date is kept.
C8_InclusiveDateFilter ==
    /\ (pc = "done" /\ exit_code = 0 /\ args.command = "posts") =>
          KeptSince(Fetched("posts"), result,
                    local.since_date.wall - local.since_date.off)
    /\ (pc = "done" /\ exit_code = 0 /\ args.command = "comments") =>
          KeptSince(Fetched("comments"), result,
                    local.since_date.wall - local.since_date.off)
    /\ (pc = "done" /\ exit_code = 0 /\ args.command = "user-activity") =>
          KeptSince(Fetched("comments"), result.comments,
                    local.since_date.wall - local.since_date.off)
    /\ (pc = "post" /\ args.command = "user-activity" /\ reqs # <<>>
           /\ LastQuery = "GetUserPosts") =>
          KeptSince(Fetched("posts"), local.posts,
                    local.since_date.wall - local.since_date.off)
    /\ (pc = "done" /\ exit_code = 0 /\ args.command = "topic-activity") =>
          KeptSince(Fetched("posts"), result.posts,
                    local.since_date.wall - local.since_date.off)
    /\ (pc \in {"post", "done"} /\ "since_date" \in DOMAIN local) =>
          \E now \in Clocks :
              /\ local.since_date.off = now.off
              /\ local.since_date.wall = now.wall - HoursPerDay * args.days

\* two posts fetched, the first exactly at the cutoff and kept, the second
\* an hour older and dropped
C8_Witness ==
    /\ pc = "done"
    /\ exit_code = 0
    /\ args.command = "posts"
    /\ Len(Fetched("posts")) = 2
    /\ StampInstant(Fetched("posts")[1].postedAt) = local.since_date.wall - local.since_date.off
    /\ StampInstant(Fetched("posts")[2].postedAt) = local.since_date.wall - local.since_date.off - 1
    /\ result = << Fetched("posts")[1] >>

\* `name` contains `query`, letter case aside
ContainsAnyCase(query, name) ==
    \E i \in 0..(Len(name) - Len(query)) :
        \A j \in 1..Len(query) :
            \/ name[i + j] = query[j]
            \/ upper_char(name[i + j]) = query[j]
            \/ name[i + j] = upper_char(query[j])

\* C9: search_tags returns the first `limit` tags of the fetched list whose
\* name contains the query, letter case aside: only such tags, in the
\* fetched order, and at most `limit` of them (none for a limit below 1).
C9_SearchTags ==
    (pc = "done" /\ exit_code = 0 /\ args.command = "search-topics") =>
        LET tags == Fetched("tags")
            hits == {i \in 1..Len(tags) : ContainsAnyCase(args.query, tags[i].name)}
        IN  /\ Len(result) = Min(Max(args.limit, 0), Cardinality(hits))
            /\ \A j \in 1..Len(result) :
                  \E i \in hits :
                      /\ tags[i] = result[j]
                      /\ Cardinality({h \in hits : h < i}) = j - 1

\* C10: the variables create_draft_post builds, and posts, hold draft and
\* submitToFrontpage set, the title given, the markdown as it was given,
\* url exactly when a URL was given and question exactly when it was asked.
C10_DraftVariables ==
    (args.command = "create-draft" /\ "variables" \in DOMAIN local) =>
        LET d == local.variables.data
        IN  /\ d.draft = TRUE
            /\ d.submitToFrontpage = TRUE
            /\ d.title = args.title
            /\ d.contents.originalContents.type = "markdown"
            /\ d.contents.originalContents.data =
                  (IF args.content # <<>> THEN args.content ELSE read_file(args.file).text)
            /\ "url" \in DOMAIN d <=> args.url # <<>>
            /\ "url" \in DOMAIN d => d.url = args.url
            /\ "question" \in DOMAIN d <=> args.question
            /\ "question" \in DOMAIN d => d.question = TRUE
            /\ DOMAIN d \subseteq {"title", "contents", "draft", "submitToFrontpage",
                                   "url", "question"}
            /\ FirstRequest # None =>
                  /\ FirstRequest.payload.query = "CreatePost"
                  /\ FirstRequest.payload.variables = local.variables

C10_Witness ==
    /\ pc = "done"
    /\ args.command = "create-draft"
    /\ args.content = << "C" >>
    /\ args.url = << "u" >>
    /\ Len(reqs) = 1
    /\ reqs[1].payload.variables.data.draft = TRUE
    /\ reqs[1].payload.variables.data.url = << "u" >>
    /\ reqs[1].payload.variables.data.contents.originalContents.data = << "C" >>
    /\ result = Draft1

\* C11: with no config file load_config gives the defaults; the file changes
\* only in a set-token that succeeds, so every other command (reads, token
\* lookups, authenticated attempts, a refused set-token) leaves an absent
\* file absent; and the file save_auth_token creates holds the defaults and
\* the one token.
C11_AbsentUntilSaved ==
    [][/\ ~cfgFile.exists =>
             load_config(cfgFile) =
                 [subscriptions |-> <<>>, digest_days |-> 7, output_dir |-> "digests"]
       /\ cfgFile' # cfgFile =>
             /\ pc = "parsed"
             /\ args.command = "set-token"
             /\ exit_code' = 0
             /\ err' = NoError
       /\ (~cfgFile.exists /\ cfgFile'.exists) =>
             cfgFile'.data =
                 [subscriptions |-> <<>>, digest_days |-> 7, output_dir |-> "digests",
                  auth |-> (result' :> args.token)]]_vars

\* create-draft has looked for a token, found no file, and left none
C11_Witness ==
    /\ pc = "done"
    /\ args.command = "create-draft"
    /\ CallsAuthenticated
    /\ err.kind = "NoToken"
    /\ ~cfgFile.exists

\* config c with `token` stored for the forum the invocation a names
WithToken(c, a) == save_auth_token(File(c), a.forum, a.token).file.data

\* C12: two set-token invocations at once rewrite the file wholesale: while
\* it parses, the file is the one found at the start or exactly what one
\* invocation that reported success held in memory, that is the first
\* file with that invocation's token and at most the other's; so when the
\* invocation whose write stands had read the file before the other wrote,
\* the other's token is not in the file although both reported success.
C12_LastWriteWins ==
    Parses(cfgFile) =>
        \/ cfgFile \in InitialConfigs
        \/ \E p \in Procs :
              /\ pc[p] = "done"
              /\ exit_code[p] = 0
              /\ cfgFile = File(local[p])
              /\ StoredAuth[result[p]] = args[p].token
              /\ \E c0 \in {load_config(f) : f \in InitialConfigs}, q \in Procs \ {p} :
                    local[p] \in {WithToken(c0, args[p]),
                                  WithToken(WithToken(c0, args[q]), args[p])}

\* both invocations reported success, one for lesswrong and one for
\* eaforum, and the file holds the eaforum token only
C12_Witness ==
    /\ \A p \in Procs : pc[p] = "done" /\ exit_code[p] = 0
    /\ result[1] = LESSWRONG
    /\ result[2] = EAFORUM
    /\ Parses(cfgFile)
    /\ DOMAIN StoredAuth = {EAFORUM}
    /\ StoredAuth[EAFORUM] = args[2].token

\* the command line has a forum name resolved before anything else fails
ResolvesForum ==
    /\ args.command \notin {"", "list-forums"}
    /\ args.command = "create-draft" => CallsAuthenticated

\* what the last reply, unwrapped without an error, carried at data[a][b]
Replied(a, b, default) == Get(Get(exchange.out.data, a, <<>>), b, default)

\* the last reply was unwrapped without an error and answers `query`
Answered(query) ==
    /\ pc = "done"
    /\ exchange # None
    /\ exchange.out.err = NoError
    /\ LastQuery = query

\* every error has ended its invocation with a printed message and exit
\* code 1, and no request of the invocation was sent twice
ErrorsEndTheInvocation ==
    /\ err # NoError =>
          /\ pc = "done"
          /\ exit_code = 1
          /\ stdout \in { << "Error" >>, << "HTTP Error" >> }
          /\ pending = None
          /\ result = None
    /\ (pc = "done" /\ exchange # None /\ exchange.out.err # NoError) =>
          err = exchange.out.err
    /\ (pc = "done" /\ ResolvesForum /\ ForumOf(args.forum) = 0) =>
          (err.kind = "UnknownForum" /\ reqs = <<>>)
    /\ err.kind = "NoToken" => reqs = <<>>
    /\ (Answered("GetUser") /\ Replied("user", "result", None) = None) =>
          err.kind = "UserNotFound"
    /\ (Answered("GetTags") /\
           \A i \in 1..Len(Replied("tags", "results", <<>>)) :
               lower(Replied("tags", "results", <<>>)[i].slug) # lower(args.slug)) =>
          err.kind = "TagNotFound"
    /\ (Answered("SearchBySlug") /\
           \A i \in 1..Len(Replied("posts", "results", <<>>)) :
               Replied("posts", "results", <<>>)[i].slug # LastSegment(args.slug)) =>
          err.kind = "PostNotFound"
    /\ \A i, j \in 1..Len(reqs) : i # j => reqs[i] # reqs[j]

\* C13: every error ends its invocation at once with a printed message and
\* exit code 1: an unknown forum and a missing token before any request, an
\* HTTP or GraphQL error as the error of the last request sent, a user, tag
\* or post not found after the lookup's reply; no request of an invocation
\* is sent twice, and after an error the next step is a new invocation.
C13_NoRetry ==
    /\ []ErrorsEndTheInvocation
    /\ [][err # NoError => (pc' \in {"parsed", "rejected"} /\ reqs' = <<>>)]_vars

\* user-activity: the user was found, the posts request failed, and no
\* comments request followed
C13_Witness ==
    /\ pc = "done"
    /\ args.command = "user-activity"
    /\ Len(reqs) = 2
    /\ reqs[2].payload.query = "GetUserPosts"
    /\ err.kind = "HTTPError"
    /\ exit_code = 1

\* the first n items of a list
FirstItems(list, n) == [i \in 1..(IF n < Len(list) THEN n ELSE Len(list)) |-> list[i]]

\* the instant of the cutoff the command works with
Cutoff == local.since_date.wall - local.since_date.off

\* the requests of this invocation that carry `query`
RequestsOf(query) == {k \in 1..Len(reqs) : reqs[k].payload.query = query}

C15_OnlyOneSlot ==
    [][(pc = "parsed" /\ args.command = "set-token") =>
          LET before == load_config(cfgFile)
              auth   == Get(before, "auth", <<>>)
          IN  IF ForumOf(args.forum) = 0
              THEN /\ cfgFile' = cfgFile
                   /\ err'.kind = "UnknownForum"
                   /\ exit_code' = 1
              ELSE LET slot == TokenSlot(ForumOf(args.forum))
                   IN  /\ cfgFile'.exists
                       /\ DOMAIN cfgFile'.data = DOMAIN before \cup {"auth"}
                       /\ \A k \in DOMAIN before \ {"auth"} : cfgFile'.data[k] = before[k]
                       /\ DOMAIN cfgFile'.data.auth = DOMAIN auth \cup {slot}
                       /\ \A k \in DOMAIN auth \ {slot} : cfgFile'.data.auth[k] = auth[k]
                       /\ cfgFile'.data.auth[slot] = args.token
                       /\ exit_code' = 0]_vars

\* a token set for "LW" in the hand-written file: its subscriptions and its
\* alignmentforum and eaforum entries are as they were
C15_Witness ==
    /\ pc = "done"
    /\ args.command = "set-token"
    /\ args.forum = Text_lw
    /\ exit_code = 0
    /\ cfgFile.data.subscriptions = << "ai-safety" >>
    /\ cfgFile.data.digest_days = 14
    /\ DOMAIN StoredAuth = {LESSWRONG, EAFORUM, ALIGNMENTFORUM}
    /\ StoredAuth[LESSWRONG] = args.token
    /\ StoredAuth[ALIGNMENTFORUM] = TokenB
    /\ StoredAuth[EAFORUM] = <<>>

\* seg is what follows the last "/" of s (all of s when it has none)
IsLastSegment(seg, s) ==
    /\ Len(seg) <= Len(s)
    /\ SubSeq(s, Len(s) - Len(seg) + 1, Len(s)) = seg
    /\ \A i \in 1..Len(seg) : seg[i] # "/"
    /\ Len(seg) < Len(s) => s[Len(s) - Len(seg)] = "/"

\* the posts the last reply carried have none with the slug `seg`
ScanFoundNone(seg) ==
    \A i \in 1..Len(Replied("posts", "results", <<>>)) :
        Replied("posts", "results", <<>>)[i].slug # seg

\* C16: in a `post` invocation "Post not found" is raised only after the
\* slug scan replied with no post whose slug is the identifier's last
\* segment; an ID lookup that replies with no post is followed by the slug
\* scan (limit 1000), not by an error; an ID lookup that replies with a
\* post ends the invocation with that post and no scan; at most one lookup
\* and one scan are sent, in that order.
C16_NotFoundAfterScan ==
    args.command = "post" =>
        /\ err.kind = "PostNotFound" =>
              /\ reqs # <<>>
              /\ LastQuery = "SearchBySlug"
              /\ exchange.out.err = NoError
              /\ \E seg \in {SubSeq(args.slug, i, Len(args.slug)) :
                                  i \in 1..(Len(args.slug) + 1)} :
                    IsLastSegment(seg, args.slug) /\ ScanFoundNone(seg)
        /\ (Len(reqs) = 1 /\ LastQuery = "GetPostById" /\ exchange.out.err = NoError) =>
              IF Replied("post", "result", None) = None
              THEN /\ pc = "post"
                   /\ err = NoError
                   /\ pending.payload =
                         [query |-> "SearchBySlug", variables |-> [limit |-> SlugScanLimit]]
              ELSE /\ pc = "done"
                   /\ exit_code = 0
                   /\ pending = None
                   /\ result = Replied("post", "result", None)
        /\ Len(reqs) <= 2
        /\ Len(reqs) = 2 =>
              /\ reqs[1].payload.query = "GetPostById"
              /\ reqs[2].payload.query = "SearchBySlug"
              /\ reqs[2].payload.variables = [limit |-> SlugScanLimit]
        /\ (pc = "done" /\ exit_code = 0 /\ reqs # <<>> /\ LastQuery = "SearchBySlug") =>
              /\ IsLastSegment(result.slug, args.slug)
              /\ \E i \in 1..Len(Replied("posts", "results", <<>>)) :
                    /\ Replied("posts", "results", <<>>)[i] = result
                    /\ \A j \in 1..(i - 1) :
                          Replied("posts", "results", <<>>)[j].slug # result.slug

\* a 17-character identifier: the ID lookup found nothing, the scan found
\* no post with that slug, and only then "Post not found"
C16_Witness ==
    /\ pc = "done"
    /\ args.command = "post"
    /\ args.slug = PostId17
    /\ Len(reqs) = 2
    /\ reqs[1].payload.query = "GetPostById"
    /\ reqs[2].payload.query = "SearchBySlug"
    /\ Len(Replied("posts", "results", <<>>)) = 2
    /\ err.kind = "PostNotFound"

\* C17: no step puts an "alignmentforum" entry into an auth mapping that
\* has none; the entries a set-token adds are "lesswrong" or "eaforum";
\* and the key save_auth_token returns is the key under which
\* get_auth_token looks the same forum name up, where it finds the token.
C17_NoAlignmentForumKey ==
    [][/\ ALIGNMENTFORUM \notin DOMAIN StoredAuth => ALIGNMENTFORUM \notin DOMAIN StoredAuth'
       /\ DOMAIN StoredAuth' \ DOMAIN StoredAuth \subseteq {LESSWRONG, EAFORUM}
       /\ (pc = "parsed" /\ args.command = "set-token" /\ exit_code' = 0) =>
             /\ result' \in {LESSWRONG, EAFORUM}
             /\ result' = get_auth_token(cfgFile', args.forum).key
             /\ get_auth_token(cfgFile', args.forum).token = args.token
             /\ StoredAuth'[result'] = args.token]_vars

\* from no file, a token set for " af ": stored under "lesswrong", the only
\* entry, which is the key save_auth_token returned
C17_Witness ==
    /\ pc = "done"
    /\ args.command = "set-token"
    /\ args.forum = Text_af
    /\ exit_code = 0
    /\ result = LESSWRONG
    /\ DOMAIN StoredAuth = {LESSWRONG}
    /\ StoredAuth[LESSWRONG] = args.token
    /\ cfgFile.data.digest_days = 7

====
